---- MODULE Spec2Model ----
(***************************************************************************)
(* Model of src/main.py: the fixed-depth alpha-beta search (minimax), the  *)
(* material evaluation (evaluate_board, piece_value) and the root driver   *)
(* (make_best_move).                                                       *)
(*                                                                         *)
(* The chess rules come from the python-chess library (chess.Board), which *)
(* main.py only consumes.  The model stands a family of finite game trees  *)
(* in for it: `game` selects one tree, a position is the node reached by   *)
(* board.move_stack, and the oracle operators (legal_moves, is_game_over,  *)
(* is_checkmate, is_stalemate, push, pop, piece_map) are functions of the  *)
(* game and the board.  The program is executed one step at a time with an *)
(* explicit call stack, so that the intermediate positions and frames of a *)
(* search are states of the model.  Between two calls the board is edited  *)
(* by mouse clicks (ChessPuzzleSolver.handle_click), the third branch of   *)
(* the event dispatch in main().                                           *)
(***************************************************************************)
EXTENDS Integers, Sequences, FiniteSets, TLC

\* ------------------------------------------------------------------ bounds

\* Largest depth argument passed to minimax by a direct call.
MaxDepth == 3
\* Largest depth argument passed to make_best_move.
MaxSolveDepth == 2
\* Plies after which every game tree of the family has ended.
TreeHeight == 3
\* Number of game trees in the family (game \in 0..NumGames-1).
NumGames == 4
\* Clicks that change the board or the selection, over a whole run.
MaxClicks == 3

\* ------------------------------------------------------- values of main.py

\* chess.WHITE / chess.BLACK are the booleans True / False.
WHITE == TRUE
BLACK == FALSE

\* float("inf"): larger than every material sum.
Inf == 1000
PosInf == Inf
NegInf == 0 - Inf

\* Python's None (moves are numbered from 1).
None == 0

\* Python's None where a square is expected (squares are numbered from 0).
NoSquare == -1

\* Pygame settings, main.py lines 5-6
WIDTH == 600
HEIGHT == 600
CELL_SIZE == WIDTH \div 8

PieceTypes == {"PAWN", "KNIGHT", "BISHOP", "ROOK", "QUEEN", "KING"}

Piece(t, c) == [piece_type |-> t, color |-> c]

\* piece_value(piece), main.py line 121
piece_value(piece) ==
    LET values == [t \in PieceTypes |->
                     CASE t = "PAWN"   -> 1
                       [] t = "KNIGHT" -> 3
                       [] t = "BISHOP" -> 3
                       [] t = "ROOK"   -> 5
                       [] t = "QUEEN"  -> 9
                       [] t = "KING"   -> 0]
    IN  values[piece.piece_type] * (IF piece.color = WHITE THEN 1 ELSE -1)

\* sum(piece_value(piece) for piece in pm.values()), pm a dict square -> piece
RECURSIVE SumValues(_)
SumValues(pm) ==
    IF DOMAIN pm = {} THEN 0
    ELSE LET sq == CHOOSE x \in DOMAIN pm : TRUE
         IN  piece_value(pm[sq]) + SumValues([x \in DOMAIN pm \ {sq} |-> pm[x]])

\* evaluate_board(board), main.py line 118: the sum over board.piece_map()
evaluate_board(b) == SumValues(b.piece_map)

Max(a, b) == IF a >= b THEN a ELSE b
Min(a, b) == IF a <= b THEN a ELSE b

\* ------------------------------------------------ the rules oracle (chess)

\* chess.square(file_index, rank_index)
square(file, rank) == rank * 8 + file

\* The piece placements the games start from: the listed pieces stand on the
\* first rank, from a1 on.
OnFirstRank(ps) == [sq \in 0..(Len(ps) - 1) |-> ps[sq + 1]]

StartPieces ==
    << OnFirstRank(<< Piece("KING", WHITE), Piece("QUEEN", WHITE), Piece("PAWN", WHITE),
                      Piece("KING", BLACK), Piece("ROOK", BLACK), Piece("KNIGHT", BLACK),
                      Piece("PAWN", BLACK) >>),
       OnFirstRank(<< Piece("KING", WHITE), Piece("PAWN", WHITE),
                      Piece("KING", BLACK), Piece("KNIGHT", BLACK) >>),
       OnFirstRank(<< Piece("ROOK", WHITE), Piece("KING", WHITE), Piece("BISHOP", WHITE),
                      Piece("PAWN", WHITE),
                      Piece("QUEEN", BLACK), Piece("KING", BLACK), Piece("PAWN", BLACK) >>),
       OnFirstRank(<< Piece("KING", WHITE), Piece("QUEEN", WHITE),
                      Piece("KING", BLACK), Piece("PAWN", BLACK) >>) >>

\* A node of the game tree as a number: the moves played, in base 4.
RECURSIVE NodeKey(_)
NodeKey(path) ==
    IF path = <<>> THEN 1
    ELSE 4 * NodeKey(SubSeq(path, 1, Len(path) - 1)) + path[Len(path)]

\* The table lookup that fixes, per game and node, what the rules say there.
Mix(g, k, salt) == ((g + 3) * (k + salt) * 31 + g * 17 + k * 7 + salt) % 101

\* How many legal moves a node offers, by table.
Widths == <<2, 3, 2, 0, 2, 1, 3, 2>>

\* What a move captures, by table ("" is a quiet move).
Victims == <<"", "PAWN", "QUEEN", "", "ROOK", "KNIGHT", "PAWN", "BISHOP">>

\* The lowest square holding a piece of the given type and colour, or NoSquare.
FindPiece(pm, t, c) ==
    LET found == {sq \in DOMAIN pm : pm[sq].piece_type = t /\ pm[sq].color = c}
    IN  IF found = {} THEN NoSquare
        ELSE CHOOSE sq \in found : \A x \in found : sq <= x

\* The piece map without the piece on square sq.
RemoveAt(pm, sq) == [x \in DOMAIN pm \ {sq} |-> pm[x]]

\* chess.Board.is_insufficient_material: only the kings are left.
is_insufficient_material(b) ==
    \A sq \in DOMAIN b.piece_map : b.piece_map[sq].piece_type = "KING"

\* The number of moves the rules generate in the position.
NumMoves(g, b) ==
    IF Len(b.move_stack) >= TreeHeight THEN 0
    ELSE Widths[(Mix(g, NodeKey(b.move_stack), 1) % Len(Widths)) + 1]

\* board.legal_moves: the moves in the order the library generates them.
legal_moves(g, b) == [i \in 1..NumMoves(g, b) |-> i]

\* board.is_checkmate(): no legal move and the side to move is in check.
is_checkmate(g, b) ==
    /\ NumMoves(g, b) = 0
    /\ Mix(g, NodeKey(b.move_stack), 2) % 2 = 0

\* board.is_stalemate(): no legal move and not in check.
is_stalemate(g, b) ==
    /\ NumMoves(g, b) = 0
    /\ ~is_checkmate(g, b)

\* board.is_game_over(): checkmate, stalemate or a draw by the rules.
is_game_over(g, b) ==
    \/ is_checkmate(g, b)
    \/ is_stalemate(g, b)
    \/ is_insufficient_material(b)

\* The piece type move m captures in position b ("" when it captures nothing).
Captured(g, b, m) ==
    LET t == Victims[(Mix(g, 4 * NodeKey(b.move_stack) + m, 3) % Len(Victims)) + 1]
    IN  IF t # "" /\ FindPiece(b.piece_map, t, ~b.turn) # NoSquare THEN t ELSE ""

\* board.push(move): keep the state to restore, play the move, pass the turn.
push(g, b, m) ==
    LET t == Captured(g, b, m)
        pm == IF t = "" THEN b.piece_map
              ELSE RemoveAt(b.piece_map, FindPiece(b.piece_map, t, ~b.turn))
    IN  [piece_map  |-> pm,
         turn       |-> ~b.turn,
         move_stack |-> Append(b.move_stack, m),
         saved      |-> Append(b.saved, [piece_map |-> b.piece_map, turn |-> b.turn])]

\* board.pop(): take back the last move, restoring the saved state.
pop(b) ==
    LET n == Len(b.saved)
    IN  [piece_map  |-> b.saved[n].piece_map,
         turn       |-> b.saved[n].turn,
         move_stack |-> SubSeq(b.move_stack, 1, n - 1),
         saved      |-> SubSeq(b.saved, 1, n - 1)]

\* board.clear_stack(): the move stack and the saved states are dropped.
clear_stack(b) == [b EXCEPT !.move_stack = <<>>, !.saved = <<>>]

\* board.set_piece_at(square, piece): the piece is put on the square, replacing
\* what stood there, and the stack is cleared.
set_piece_at(b, sq, piece) ==
    clear_stack([b EXCEPT !.piece_map =
        [x \in DOMAIN b.piece_map \cup {sq} |-> IF x = sq THEN piece ELSE b.piece_map[x]]])

\* board.remove_piece_at(square), also board.set_piece_at(square, None): the
\* square is emptied and the stack is cleared.
remove_piece_at(b, sq) ==
    clear_stack([b EXCEPT !.piece_map = RemoveAt(b.piece_map, sq)])

\* chess.Board() of game g with the given side to move.
NewBoard(g, t) ==
    [piece_map  |-> StartPieces[(g % Len(StartPieces)) + 1],
     turn       |-> t,
     move_stack |-> <<>>,
     saved      |-> <<>>]

\* ------------------------------------------------------------- the program

VARIABLES
    game,      \* the game tree the rules oracle answers from
    board,     \* the one shared chess.Board
    frames,    \* the call stack: minimax and make_best_move activations
    ret,       \* the value the last returning activation of the call returned
    call,      \* the outermost call in progress (or finished) and its entry board
    napply,    \* board.push calls made since the outermost call started
    nundo,     \* board.pop calls made since the outermost call started
    nsearch,   \* minimax activations created since the outermost call started
    selected_square,  \* ChessPuzzleSolver.selected_square
    nclicks    \* clicks so far that changed the board or the selection

vars == <<game, board, frames, ret, call, napply, nundo, nsearch,
          selected_square, nclicks>>

Depths == 0..MaxDepth
SolveDepths == 0..MaxSolveDepth
\* The window values a caller of minimax may pass.
Bounds == {NegInf, 0, PosInf}

Frame(fn, depth, alpha, beta, maximizing, side) ==
    [fn |-> fn, depth |-> depth, alpha |-> alpha, beta |-> beta,
     maximizing |-> maximizing, side |-> side,
     idx |-> 1, best |-> 0, best_move |-> None, pc |-> "start"]

Call(fn, depth, alpha, beta, maximizing, side, b) ==
    [fn |-> fn, depth |-> depth, alpha |-> alpha, beta |-> beta,
     maximizing |-> maximizing, side |-> side, entry |-> b, done |-> FALSE]

Top == frames[Len(frames)]
Idle == frames = <<>>

\* The activation on top returns: it leaves the stack, and the outermost call
\* is done when the stack is empty.
ReturnFrame ==
    /\ frames' = SubSeq(frames, 1, Len(frames) - 1)
    /\ call' = IF Len(frames) = 1 THEN [call EXCEPT !.done = TRUE] ELSE call

SetTop(f) == [frames EXCEPT ![Len(frames)] = f]

Init ==
    /\ game \in 0..(NumGames - 1)
    /\ board = NewBoard(game, WHITE)
    /\ frames = <<>>
    /\ ret = None
    /\ call = Call("none", 0, 0, 0, FALSE, FALSE, board)
    /\ napply = 0
    /\ nundo = 0
    /\ nsearch = 0
    /\ selected_square = NoSquare
    /\ nclicks = 0

\* ---- ChessPuzzleSolver.handle_click(pos, button), main.py lines 179-195

\* The mouse positions clicked: on a1, b1 and d1, and below the board beside
\* the buttons.
ClickPoints == {<<10, 590>>, <<85, 590>>, <<235, 590>>, <<10, 610>>}

\* event.button: left, middle, right
Buttons == {1, 2, 3}

\* get_square_from_mouse(pos), main.py lines 81-87
get_square_from_mouse(pos) ==
    LET x == pos[1]
        y == pos[2]
    IN  IF y >= HEIGHT THEN NoSquare
        ELSE square(x \div CELL_SIZE, 7 - (y \div CELL_SIZE))

\* The board and the selection after handle_click(pos, button).
ClickResult(b, sel, pos, button) ==
    LET clicked_square == get_square_from_mouse(pos)
        same == [board |-> b, selected_square |-> sel]
    IN  IF clicked_square = NoSquare THEN same
        ELSE IF button = 1 THEN
            IF sel = NoSquare
            THEN IF clicked_square \in DOMAIN b.piece_map
                 THEN [board |-> b, selected_square |-> clicked_square]
                 ELSE same
            ELSE IF clicked_square # sel
                 THEN [board |->
                          remove_piece_at(
                            IF sel \in DOMAIN b.piece_map
                            THEN set_piece_at(b, clicked_square, b.piece_map[sel])
                            ELSE remove_piece_at(b, clicked_square),
                            sel),
                       selected_square |-> NoSquare]
                 ELSE [board |-> b, selected_square |-> NoSquare]
        ELSE IF button = 3
        THEN [board |-> remove_piece_at(b, clicked_square), selected_square |-> sel]
        ELSE same

\* main, line 219: a mouse click that is on neither button is handled while no
\* call is in progress; the record of the last call ends with it.
HandleClick(pos, button) ==
    /\ Idle
    /\ LET r == ClickResult(board, selected_square, pos, button)
           changed == r.board # board \/ r.selected_square # selected_square
       IN  /\ changed => nclicks < MaxClicks
           /\ board' = r.board
           /\ selected_square' = r.selected_square
           /\ nclicks' = IF changed THEN nclicks + 1 ELSE nclicks
           /\ call' = Call("none", 0, 0, 0, FALSE, FALSE, r.board)
    /\ ret' = None
    /\ napply' = 0
    /\ nundo' = 0
    /\ nsearch' = 0
    /\ UNCHANGED <<game, frames>>

\* ---- minimax(board, depth, alpha, beta, maximizing), main.py lines 90-115

\* Mutant of Terminal: the game-over test is forgotten.
TerminalDepthOnly(g, b, depth) == depth = 0

\* line 91: if depth == 0 or board.is_game_over()
Terminal(g, b, depth) == depth = 0 \/ is_game_over(g, b)

\* Mutant of Cutoff: the comparison is turned around.
CutoffInverted(alpha, beta) == alpha <= beta

\* lines 102, 113: if beta <= alpha: break
Cutoff(alpha, beta) == beta <= alpha

\* lines 98, 109: the flag passed to the recursive call
ChildFlag(maximizing) == ~maximizing

\* A caller outside the module calls minimax on the current board.
CallMinimax(d, a, b, m) ==
    /\ Idle
    /\ frames' = <<Frame("minimax", d, a, b, m, FALSE)>>
    /\ call' = Call("minimax", d, a, b, m, FALSE, board)
    /\ napply' = 0
    /\ nundo' = 0
    /\ nsearch' = 1
    /\ ret' = None
    /\ UNCHANGED <<game, board, selected_square, nclicks>>

\* lines 91-92: return evaluate_board(board)
MinimaxLeaf ==
    /\ ~Idle
    /\ Top.fn = "minimax"
    /\ Top.pc = "start"
    /\ Terminal(game, board, Top.depth)
    /\ ret' = evaluate_board(board)
    /\ ReturnFrame
    /\ UNCHANGED <<game, board, napply, nundo, nsearch, selected_square, nclicks>>

\* lines 94-95, 105-106: max_eval = -inf / min_eval = inf
MinimaxBegin ==
    /\ ~Idle
    /\ Top.fn = "minimax"
    /\ Top.pc = "start"
    /\ ~Terminal(game, board, Top.depth)
    /\ frames' = SetTop([Top EXCEPT !.pc = "loop",
                                    !.best = IF Top.maximizing THEN NegInf ELSE PosInf])
    /\ UNCHANGED <<game, board, ret, call, napply, nundo, nsearch, selected_square, nclicks>>

\* lines 96-98, 107-109: the next move of the loop is pushed and searched
MinimaxDescend ==
    /\ ~Idle
    /\ Top.fn = "minimax"
    /\ Top.pc = "loop"
    /\ Top.idx <= Len(legal_moves(game, board))
    /\ board' = push(game, board, legal_moves(game, board)[Top.idx])
    /\ frames' = Append(SetTop([Top EXCEPT !.pc = "called"]),
                        Frame("minimax", Top.depth - 1, Top.alpha, Top.beta,
                              ChildFlag(Top.maximizing), FALSE))
    /\ napply' = napply + 1
    /\ nsearch' = nsearch + 1
    /\ UNCHANGED <<game, ret, call, nundo, selected_square, nclicks>>

\* Mutant of MinimaxResume: the break is taken before board.pop().
MinimaxResumeNoPopOnCut ==
    /\ ~Idle
    /\ Top.fn = "minimax"
    /\ Top.pc = "called"
    /\ LET best  == IF Top.maximizing THEN Max(Top.best, ret) ELSE Min(Top.best, ret)
           alpha == IF Top.maximizing THEN Max(Top.alpha, ret) ELSE Top.alpha
           beta  == IF Top.maximizing THEN Top.beta ELSE Min(Top.beta, ret)
       IN  /\ frames' = SetTop([Top EXCEPT
                                   !.best = best, !.alpha = alpha, !.beta = beta,
                                   !.idx = Top.idx + 1,
                                   !.pc = IF Cutoff(alpha, beta) THEN "done" ELSE "loop"])
           /\ IF Cutoff(alpha, beta)
              THEN UNCHANGED <<board, nundo>>
              ELSE board' = pop(board) /\ nundo' = nundo + 1
    /\ UNCHANGED <<game, ret, call, napply, nsearch, selected_square, nclicks>>

\* lines 99-103, 110-114: pop, fold the result in, narrow the window, maybe break
MinimaxResume ==
    /\ ~Idle
    /\ Top.fn = "minimax"
    /\ Top.pc = "called"
    /\ board' = pop(board)
    /\ nundo' = nundo + 1
    /\ LET best  == IF Top.maximizing THEN Max(Top.best, ret) ELSE Min(Top.best, ret)
           alpha == IF Top.maximizing THEN Max(Top.alpha, ret) ELSE Top.alpha
           beta  == IF Top.maximizing THEN Top.beta ELSE Min(Top.beta, ret)
       IN  frames' = SetTop([Top EXCEPT
                                !.best = best, !.alpha = alpha, !.beta = beta,
                                !.idx = Top.idx + 1,
                                !.pc = IF Cutoff(alpha, beta) THEN "done" ELSE "loop"])
    /\ UNCHANGED <<game, ret, call, napply, nsearch, selected_square, nclicks>>

\* lines 104, 115: return max_eval / min_eval after the loop ended or broke
MinimaxReturn ==
    /\ ~Idle
    /\ Top.fn = "minimax"
    /\ \/ Top.pc = "done"
       \/ Top.pc = "loop" /\ Top.idx > Len(legal_moves(game, board))
    /\ ret' = Top.best
    /\ ReturnFrame
    /\ UNCHANGED <<game, board, napply, nundo, nsearch, selected_square, nclicks>>

\* ---- make_best_move(board, depth, side), main.py lines 149-171

\* Mutant of InitialBest: the best value starts at 0 for both sides.
InitialBestZero(side) == 0

\* line 154: best_value = -inf if side == chess.WHITE else inf
InitialBest(side) == IF side = WHITE THEN NegInf ELSE PosInf

\* Mutant of RootFlag: the root passes its own role on instead of the opponent's.
RootFlagSame(side) == side = WHITE

\* line 158: the flag passed to minimax at the root
RootFlag(side) == side # WHITE

\* Mutant of Improves: a move of equal value replaces the best move as well.
ImprovesOrTies(side, value, best_value) ==
    \/ side = WHITE /\ value >= best_value
    \/ side = BLACK /\ value <= best_value

\* line 161: the test that replaces the best move
Improves(side, value, best_value) ==
    \/ side = WHITE /\ value > best_value
    \/ side = BLACK /\ value < best_value

\* Mutant of GameAlreadyOver: only checkmate is tested.
GameAlreadyOverMateOnly(g, b) == is_checkmate(g, b)

\* line 150: if board.is_game_over()
GameAlreadyOver(g, b) == is_game_over(g, b)

\* The caller (main, lines 215 and 217) calls make_best_move on the board.
CallMakeBestMove(d, s) ==
    /\ Idle
    /\ frames' = <<Frame("make_best_move", d, 0, 0, FALSE, s)>>
    /\ call' = Call("make_best_move", d, 0, 0, FALSE, s, board)
    /\ napply' = 0
    /\ nundo' = 0
    /\ nsearch' = 0
    /\ ret' = None
    /\ UNCHANGED <<game, board, selected_square, nclicks>>

\* lines 150-151: the game is over, return
MbmGameOver ==
    /\ ~Idle
    /\ Top.fn = "make_best_move"
    /\ Top.pc = "start"
    /\ GameAlreadyOver(game, board)
    /\ ret' = None
    /\ ReturnFrame
    /\ UNCHANGED <<game, board, napply, nundo, nsearch, selected_square, nclicks>>

\* lines 153-154: best_move = None, best_value = -inf / inf
MbmBegin ==
    /\ ~Idle
    /\ Top.fn = "make_best_move"
    /\ Top.pc = "start"
    /\ ~GameAlreadyOver(game, board)
    /\ frames' = SetTop([Top EXCEPT !.pc = "loop", !.best_move = None,
                                    !.best = InitialBest(Top.side)])
    /\ UNCHANGED <<game, board, ret, call, napply, nundo, nsearch, selected_square, nclicks>>

\* lines 156-158: the next root move is pushed and searched with the full window
MbmDescend ==
    /\ ~Idle
    /\ Top.fn = "make_best_move"
    /\ Top.pc = "loop"
    /\ Top.idx <= Len(legal_moves(game, board))
    /\ board' = push(game, board, legal_moves(game, board)[Top.idx])
    /\ frames' = Append(SetTop([Top EXCEPT !.pc = "called"]),
                        Frame("minimax", Top.depth - 1, NegInf, PosInf,
                              RootFlag(Top.side), FALSE))
    /\ napply' = napply + 1
    /\ nsearch' = nsearch + 1
    /\ UNCHANGED <<game, ret, call, nundo, selected_square, nclicks>>

\* Mutant of MbmResume: board.pop() is forgotten.
MbmResumeNoPop ==
    /\ ~Idle
    /\ Top.fn = "make_best_move"
    /\ Top.pc = "called"
    /\ LET move == Top.idx
           better == Improves(Top.side, ret, Top.best)
       IN  frames' = SetTop([Top EXCEPT
                                !.best = IF better THEN ret ELSE Top.best,
                                !.best_move = IF better THEN move ELSE Top.best_move,
                                !.idx = Top.idx + 1,
                                !.pc = "loop"])
    /\ UNCHANGED <<game, board, ret, call, napply, nundo, nsearch, selected_square, nclicks>>

\* lines 159-163: pop, keep the move when its value improves on the best
MbmResume ==
    /\ ~Idle
    /\ Top.fn = "make_best_move"
    /\ Top.pc = "called"
    /\ board' = pop(board)
    /\ nundo' = nundo + 1
    /\ LET move == legal_moves(game, pop(board))[Top.idx]
           better == Improves(Top.side, ret, Top.best)
       IN  frames' = SetTop([Top EXCEPT
                                !.best = IF better THEN ret ELSE Top.best,
                                !.best_move = IF better THEN move ELSE Top.best_move,
                                !.idx = Top.idx + 1,
                                !.pc = "loop"])
    /\ UNCHANGED <<game, ret, call, napply, nsearch, selected_square, nclicks>>

\* Mutant of MbmCommit: the function ends with `return best_move`.
MbmCommitReturnsMove ==
    /\ ~Idle
    /\ Top.fn = "make_best_move"
    /\ Top.pc = "loop"
    /\ Top.idx > Len(legal_moves(game, board))
    /\ IF Top.best_move # None
       THEN /\ board' = push(game, board, Top.best_move)
            /\ napply' = napply + 1
       ELSE UNCHANGED <<board, napply>>
    /\ ret' = Top.best_move
    /\ ReturnFrame
    /\ UNCHANGED <<game, nundo, nsearch, selected_square, nclicks>>

\* lines 165-171: push the best move, if any; the function returns no value
MbmCommit ==
    /\ ~Idle
    /\ Top.fn = "make_best_move"
    /\ Top.pc = "loop"
    /\ Top.idx > Len(legal_moves(game, board))
    /\ IF Top.best_move # None
       THEN /\ board' = push(game, board, Top.best_move)
            /\ napply' = napply + 1
       ELSE UNCHANGED <<board, napply>>
    /\ ret' = None
    /\ ReturnFrame
    /\ UNCHANGED <<game, nundo, nsearch, selected_square, nclicks>>

\* The steps of a running minimax activation.
MinimaxStep ==
    \/ MinimaxLeaf
    \/ MinimaxBegin
    \/ MinimaxDescend
    \/ MinimaxResume
    \/ MinimaxReturn

\* The program as main() drives it: mouse clicks edit the board, the two
\* buttons call make_best_move.
Next ==
    \/ \E pos \in ClickPoints, button \in Buttons : HandleClick(pos, button)
    \/ \E d \in SolveDepths, s \in BOOLEAN : CallMakeBestMove(d, s)
    \/ MinimaxStep
    \/ MbmGameOver
    \/ MbmBegin
    \/ MbmDescend
    \/ MbmResume
    \/ MbmCommit

Spec == Init /\ [][Next]_vars

\* minimax called on its own, on every board the clicks can set up.
NextSearch ==
    \/ \E pos \in ClickPoints, button \in Buttons : HandleClick(pos, button)
    \/ \E d \in Depths, a \in Bounds, b \in Bounds, m \in BOOLEAN :
          CallMinimax(d, a, b, m)
    \/ MinimaxStep

SpecSearch == Init /\ [][NextSearch]_vars

\* -------------------------------------------------------------- the claims

\* The outermost call of function fn has returned.
Returned(fn) == Idle /\ call.done /\ call.fn = fn

LastMove(b) == b.move_stack[Len(b.move_stack)]

SetMax(S) == CHOOSE x \in S : \A y \in S : y <= x
SetMin(S) == CHOOSE x \in S : \A y \in S : x <= y

\* The reference: minimax without a window, over the same moves in the same
\* order, with the same terminal condition.
RECURSIVE PlainMinimax(_, _, _, _)
PlainMinimax(g, b, depth, maximizing) ==
    IF depth = 0 \/ is_game_over(g, b) THEN evaluate_board(b)
    ELSE LET vals == {PlainMinimax(g, push(g, b, m), depth - 1, ~maximizing) :
                         m \in 1..NumMoves(g, b)}
         IN  IF maximizing THEN SetMax(vals) ELSE SetMin(vals)

RECURSIVE SumSeq(_)
SumSeq(xs) == IF xs = <<>> THEN 0 ELSE Head(xs) + SumSeq(Tail(xs))

\* The positions the reference visits.
RECURSIVE PlainNodes(_, _, _)
PlainNodes(g, b, depth) ==
    IF depth = 0 \/ is_game_over(g, b) THEN 1
    ELSE 1 + SumSeq([m \in 1..NumMoves(g, b) |->
                        PlainNodes(g, push(g, b, m), depth - 1)])

\* The score make_best_move obtains for root move m.
RootScore(g, b, depth, side, m) ==
    PlainMinimax(g, push(g, b, m), depth - 1, side # WHITE)

\* Score x is better than score y for the side.
Better(side, x, y) == IF side = WHITE THEN x > y ELSE x < y

\* The first move, in enumeration order, whose score no other move betters.
FirstBest(g, b, depth, side) ==
    CHOOSE m \in 1..NumMoves(g, b) :
        /\ \A j \in 1..NumMoves(g, b) :
              ~Better(side, RootScore(g, b, depth, side, j),
                            RootScore(g, b, depth, side, m))
        /\ \A j \in 1..(m - 1) :
              Better(side, RootScore(g, b, depth, side, m),
                           RootScore(g, b, depth, side, j))

\* The moves of position b that deliver checkmate.
MatingMoves(g, b) == {m \in 1..NumMoves(g, b) : is_checkmate(g, push(g, b, m))}

\* C1: minimax called with the full window (-inf, +inf), any depth >= 0 and
\* either flag, returns the score of the pruning-free minimax.
C1_AlphaBetaEqualsMinimax ==
    (Returned("minimax") /\ call.alpha = NegInf /\ call.beta = PosInf)
        => ret = PlainMinimax(game, call.entry, call.depth, call.maximizing)

\* C1 witness: a full-window search of depth 3 that returned after a cutoff
\* skipped positions the reference visits.
C1_Witness ==
    /\ Returned("minimax")
    /\ call.alpha = NegInf /\ call.beta = PosInf
    /\ call.depth = 3
    /\ nsearch < PlainNodes(game, call.entry, call.depth)

\* C2: when minimax has returned (any depth >= 0, any window, either flag,
\* cutoff or not) the board is what it was on entry, and every push was
\* matched by one pop.
C2_SearchRestoresPosition ==
    Returned("minimax") => (board = call.entry /\ napply = nundo)

\* C2 witness: a search with a narrowed window returned after pushing moves
\* and after a cutoff ended a move loop early.
C2_Witness ==
    /\ Returned("minimax")
    /\ call.alpha = 0 /\ call.beta = PosInf
    /\ napply >= 3
    /\ nsearch < PlainNodes(game, call.entry, call.depth)

\* C3: when make_best_move has returned from a position that was not game
\* over, the board is the entry board with exactly one legal move pushed on
\* it, and every other push was matched by a pop.
C3_CommitIsOnlyChange ==
    (Returned("make_best_move") /\ ~is_game_over(game, call.entry))
        => /\ Len(board.move_stack) = Len(call.entry.move_stack) + 1
           /\ LastMove(board) \in 1..NumMoves(game, call.entry)
           /\ board = push(game, call.entry, LastMove(board))
           /\ napply = nundo + 1

\* C3 witness: make_best_move returned after probing several root moves and
\* searching below them, on a board that clicks had edited before the call.
C3_Witness ==
    /\ Returned("make_best_move")
    /\ ~is_game_over(game, call.entry)
    /\ NumMoves(game, call.entry) >= 2
    /\ napply >= 6
    /\ nclicks >= 1
    /\ \A i \in 1..Len(StartPieces) : call.entry.piece_map # StartPieces[i]

\* C4: called on a position that is game over, make_best_move returns None,
\* pushes and pops nothing, starts no search and leaves the board unchanged.
C4_GameOverIsNoOp ==
    (Returned("make_best_move") /\ is_game_over(game, call.entry))
        => /\ ret = None
           /\ board = call.entry
           /\ napply = 0 /\ nundo = 0 /\ nsearch = 0

\* C4 witness: make_best_move returned from a drawn position that still has
\* legal moves, with depth to search.
C4_Witness ==
    /\ Returned("make_best_move")
    /\ is_game_over(game, call.entry)
    /\ NumMoves(game, call.entry) > 0
    /\ call.depth >= 1

\* C5: minimax returns evaluate_board(board) and pushes no move whenever
\* depth is 0 or the game is over, whatever the window, the flag and (when
\* the game is over) the depth.
C5_TerminalReturnsEvaluation ==
    (Returned("minimax") /\ (call.depth = 0 \/ is_game_over(game, call.entry)))
        => /\ ret = evaluate_board(call.entry)
           /\ napply = 0 /\ nsearch = 1
           /\ board = call.entry

\* C5 witness: minimax returned from a finished game with depth left, a
\* window that is not the full one and a material balance other than 0.
C5_Witness ==
    /\ Returned("minimax")
    /\ call.depth >= 2
    /\ is_game_over(game, call.entry)
    /\ call.alpha = 0 /\ call.beta = 0
    /\ ret # 0

\* C6: the move make_best_move commits is the first move, in enumeration
\* order, whose search score is the maximum (side White) or the minimum
\* (side Black) over the root moves; a later move of equal score is not chosen.
C6_FirstBestMoveCommitted ==
    (Returned("make_best_move") /\ ~is_game_over(game, call.entry))
        => LastMove(board) = FirstBest(game, call.entry, call.depth, call.side)

\* C6 witness: make_best_move committed a move although a later root move
\* has the same score.
C6_Witness ==
    /\ Returned("make_best_move")
    /\ ~is_game_over(game, call.entry)
    /\ call.depth >= 2
    /\ \E j \in 1..NumMoves(game, call.entry) :
          /\ j > LastMove(board)
          /\ RootScore(game, call.entry, call.depth, call.side, j)
               = RootScore(game, call.entry, call.depth, call.side, LastMove(board))

\* C7 as claimed: whenever the side to move has a move that delivers
\* checkmate, make_best_move with depth >= 1 for that side leaves a checkmate.
C7_MateInOneIsPlayed ==
    (/\ Returned("make_best_move")
     /\ ~is_game_over(game, call.entry)
     /\ call.depth >= 1
     /\ call.side = call.entry.turn
     /\ MatingMoves(game, call.entry) # {})
        => is_checkmate(game, board)

\* C7 as amended: make_best_move leaves a checkmate when some mating move
\* scores strictly better than every non-mating move before it and no worse
\* than every non-mating move after it.
C7_MateIsPlayedWhenFirstBest ==
    (/\ Returned("make_best_move")
     /\ ~is_game_over(game, call.entry)
     /\ call.depth >= 1
     /\ call.side = call.entry.turn
     /\ \E m \in MatingMoves(game, call.entry) :
           \A j \in (1..NumMoves(game, call.entry)) \ MatingMoves(game, call.entry) :
              LET sm == RootScore(game, call.entry, call.depth, call.side, m)
                  sj == RootScore(game, call.entry, call.depth, call.side, j)
              IN  IF j < m THEN Better(call.side, sm, sj)
                           ELSE ~Better(call.side, sj, sm))
        => is_checkmate(game, board)

\* C7 witness: a mating move was committed in a position that also offers
\* moves that do not mate.
C7_Witness ==
    /\ Returned("make_best_move")
    /\ ~is_game_over(game, call.entry)
    /\ call.depth >= 2
    /\ call.side = call.entry.turn
    /\ MatingMoves(game, call.entry) # {}
    /\ MatingMoves(game, call.entry) # 1..NumMoves(game, call.entry)
    /\ is_checkmate(game, board)

\* C8 as claimed: make_best_move returns the move it committed when the
\* position was not game over, and nothing when it was.
C8_ReturnsCommittedMove ==
    Returned("make_best_move")
        => IF is_game_over(game, call.entry)
           THEN ret = None
           ELSE ret = LastMove(board)

\* C8 as amended: make_best_move returns nothing in both cases; the move it
\* chose is only the move pushed on the board.
C8_ReturnsNothing ==
    Returned("make_best_move")
        => /\ ret = None
           /\ ~is_game_over(game, call.entry)
                 => /\ Len(board.move_stack) = Len(call.entry.move_stack) + 1
                    /\ LastMove(board) \in 1..NumMoves(game, call.entry)

\* C8 witness: make_best_move returned after committing a move.
C8_Witness ==
    /\ Returned("make_best_move")
    /\ ~is_game_over(game, call.entry)
    /\ board = push(game, call.entry, LastMove(board))
    /\ call.depth >= 1

MinimaxFrames == {i \in 1..Len(frames) : frames[i].fn = "minimax"}

\* C9 as claimed: in a call of make_best_move with depth d >= 0 every minimax
\* frame has a depth >= 0 and at most d minimax frames are nested.
C9_DepthStaysNonNegative ==
    (call.fn = "make_best_move" /\ call.depth >= 0)
        => /\ \A i \in MinimaxFrames : frames[i].depth >= 0
           /\ Cardinality(MinimaxFrames) <= call.depth

\* C10: in a call of make_best_move, every minimax frame, while the board
\* stands at the frame's own position (the frame is on top and no move of its
\* loop is pushed), has a maximizing flag fixed by side and the number of
\* plies below the root alone: it is side != WHITE one ply down and flips
\* with every further ply.  When side is the side to move at the root, the
\* flag is therefore true exactly when White is to move on the board.
C10_FlagTracksSideToMove ==
    (/\ call.fn = "make_best_move"
     /\ ~Idle
     /\ Top.fn = "minimax"
     /\ Top.pc # "called")
        => LET plies == Len(board.move_stack) - Len(call.entry.move_stack)
           IN  /\ Top.maximizing <=> ((call.side = WHITE) <=> (plies % 2 = 0))
               /\ call.side = call.entry.turn
                     => (Top.maximizing <=> (board.turn = WHITE))

\* C10 witness: a minimax frame three plies below the root, entered for Black.
C10_Witness ==
    /\ call.fn = "make_best_move"
    /\ call.side = call.entry.turn
    /\ call.side = BLACK
    /\ Cardinality(MinimaxFrames) = 3
    /\ Top.fn = "minimax"
    /\ Top.pc = "start"

====
